---- MODULE Spec2Model ----
(***************************************************************************)
(* Model of app.py: a Telegram bot that re-encrypts an uploaded PKCS#12    *)
(* bundle.  One action per update routed by the webhook: the 401 reject,   *)
(* /start, the three conversation callbacks, /cancel, and an update no     *)
(* handler accepts.  Each callback is modelled whole, cleanup included.    *)
(*                                                                         *)
(* Strings that the code inspects (file names, message texts, passphrases) *)
(* are sequences of atoms: "." is the dot, " " is whitespace, every other  *)
(* atom is a run of non-dot, non-blank characters.                         *)
(* Optional values (Python None) are sequences of length <= 1.             *)
(***************************************************************************)
EXTENDS Integers, Sequences, FiniteSets, TLC

\* ------------------------------------------------------------------ bounds
MaxUploads == 2
MaxEntries == 2
MaxInflight == 2

\* Two chats of one user: private chat and a group, say.
Chats == {1, 2}
Users == {1}
Keys == Chats \X Users

\* ------------------------------------------------------------ option type
None == <<>>
Some(x) == <<x>>
IsNone(o) == o = <<>>
Val(o) == o[1]

\* ------------------------------------------------------------ environment
MAX_FILE_SIZE_MB == 16
MAX_FILE_SIZE_BYTES == MAX_FILE_SIZE_MB * 1024 * 1024

END == "END"
ASK_OLD_PASS == "ASK_OLD_PASS"
ASK_NEW_PASS == "ASK_NEW_PASS"

\* Reply texts, named after the place that sends them.
MsgStart == "start: send a .p12"
MsgNotP12 == "send a proper .p12 file"
MsgTooBig == "file too large"
MsgAskOld == "enter old password"
MsgAskNew == "enter new password"
MsgMissing == "temp file not found"
MsgInvalid == "invalid .p12"
MsgDecrypt == "wrong old password or broken file"
MsgRepack == "error creating new file"
MsgCancel == "cancelled"

\* --------------------------------------------------------- string helpers
Lower(a) == CASE a = "P12" -> "p12" [] a = "S" -> "s" [] OTHER -> a

\* str.strip(): drop leading and trailing whitespace atoms.
RECURSIVE lstrip(_)
lstrip(s) == IF s # <<>> /\ Head(s) = " " THEN lstrip(Tail(s)) ELSE s
RECURSIVE rstrip(_)
rstrip(s) == IF s # <<>> /\ s[Len(s)] = " " THEN rstrip(SubSeq(s, 1, Len(s) - 1)) ELSE s
strip(s) == rstrip(lstrip(s))

\* file_name.lower().endswith(".p12")
endswith_p12(name) ==
    /\ Len(name) >= 2
    /\ name[Len(name) - 1] = "."
    /\ Lower(name[Len(name)]) = "p12"

\* os.path.splitext(p)[0]: cut at the last dot, unless only dots precede it.
splitext_root(p) ==
    LET dots == {i \in 1..Len(p) : p[i] = "."}
        dotIndex == CHOOSE i \in dots : \A j \in dots : j <= i
    IN  IF dots # {} /\ \E j \in 1..(dotIndex - 1) : p[j] # "."
        THEN SubSeq(p, 1, dotIndex - 1)
        ELSE p

\* f"{os.path.splitext(orig_name)[0]}_newpass_{ts}.p12"
output_name_keep_ext(orig_name, ts) == orig_name \o <<"_newpass_", ts, ".", "p12">>
format_output_name(orig_name, ts) == splitext_root(orig_name) \o <<"_newpass_", ts, ".", "p12">>

\* os.path.join(tmp_dir, name)
path_join(tmp_dir, name) == <<tmp_dir, name>>

\* ------------------------------------------------------------ PKCS#12 data
\* A blob is either garbage or a bundle protected by passphrase pw
\* (pw = <<>>: no passphrase) holding an optional key, an optional primary
\* certificate, additional certificates and an optional friendly name.
Garbage == [kind |-> "garbage", pw |-> <<>>, key |-> None, cert |-> None,
            addl |-> <<>>, name |-> None]
Bundle(pw, key, cert, addl, name) ==
    [kind |-> "p12", pw |-> pw, key |-> key, cert |-> cert, addl |-> addl, name |-> name]

\* load_key_and_certificates(data, password): password None stands for the
\* empty passphrase; anything that does not open the blob raises.
load_any_password(data, password) ==
    IF data.kind = "p12"
    THEN [ok |-> TRUE, key |-> data.key, cert |-> data.cert, addl |-> data.addl]
    ELSE [ok |-> FALSE, key |-> None, cert |-> None, addl |-> <<>>]
load_key_and_certificates(data, password) ==
    IF data.kind = "p12" /\ data.pw = (IF IsNone(password) THEN <<>> ELSE Val(password))
    THEN [ok |-> TRUE, key |-> data.key, cert |-> data.cert, addl |-> data.addl]
    ELSE [ok |-> FALSE, key |-> None, cert |-> None, addl |-> <<>>]

\* cert.subject.rfc4514_string().encode("utf-8") if cert else None
friendly_name(cert) == IF IsNone(cert) THEN None ELSE Some(<<"subject", Val(cert)>>)

\* serialize_key_and_certificates(name, key, cert, cas,
\*   BestAvailableEncryption(new_pass)): raises for an empty passphrase.
serialize_drop_cas(name, key, cert, cas, new_pass) ==
    IF new_pass = <<>> THEN None ELSE Some(Bundle(new_pass, key, cert, <<>>, name))
serialize_key_and_certificates(name, key, cert, cas, new_pass) ==
    IF new_pass = <<>> THEN None ELSE Some(Bundle(new_pass, key, cert, cas, name))

\* ------------------------------------------------------------------ inputs
Headers == {None, Some("s3cret"), Some("wrong")}
Secrets == {"", "s3cret"}
Secret123 == Bundle(<<"old123">>, Some("k1"), Some("c1"), <<"ca1">>, None)
Unprotected == Bundle(<<>>, Some("k1"), None, <<>>, None)
EmptyBundle == Bundle(<<"old123">>, None, None, <<>>, None)
SecretP12 == <<"secret", ".", "p12">>
Sizes == {0, 2048, MAX_FILE_SIZE_BYTES, MAX_FILE_SIZE_BYTES + 1}
\* Attachments: secret.p12 in every size and as a broken and an empty
\* bundle, an unprotected bundle under an upper-case extension, a protected
\* one named by the extension alone, and a text file.
Documents ==
    {[name |-> SecretP12, size |-> sz, data |-> Secret123] : sz \in Sizes}
    \cup {[name |-> SecretP12, size |-> 2048, data |-> d] : d \in {Garbage, EmptyBundle}}
    \cup {[name |-> <<"a", ".", "b", ".", "P12">>, size |-> 2048, data |-> Unprotected],
          [name |-> <<".", "p12">>, size |-> 2048, data |-> Secret123],
          [name |-> <<"notes", ".", "txt">>, size |-> 2048, data |-> Secret123]}
Texts == {<<" ">>, <<"old123">>, <<" ", "old123", " ">>, <<"newpass">>}
Timestamps == {"20240101_000000"}
\* doc.get_file() raises; download_to_drive() raises before it writes.
DocFaults == {"none", "get_file", "download"}
RepackFaults == {"none", "write", "write_partial", "send"}
Commands == {"start", "cancel"}

\* ------------------------------------------------------------------- state
VARIABLES
    SECRET_TOKEN,    \* TELEGRAM_WEBHOOK_SECRET, "" when not configured
    conversations,   \* ConversationHandler state per (chat, user) key
    user_data,       \* context.user_data per user
    dirs,            \* existing temporary directories
    files,           \* existing files: path -> content
    next_dir,        \* the next name tempfile.mkdtemp() hands out
    out,             \* what the last step answered and did
    dlg,             \* per key: the directory mkdtemp() gave its open dialogue
    inflight         \* ask_new_pass calls suspended at the await of their reply

vars == <<SECRET_TOKEN, conversations, user_data, dirs, files, next_dir, out, dlg,
         inflight>>

EmptyData == [input_path |-> None, tmp_dir |-> None, old_pass |-> None, orig_name |-> None]

\* The JSON body of a webhook call, as Update.de_json() reads it.
Update(c, u, kind, name, size, data, text) ==
    [chat |-> c, user |-> u, kind |-> kind, name |-> name,
     size |-> size, data |-> data, text |-> text]
DocUpdate(c, u, doc) == Update(c, u, "document", doc.name, doc.size, doc.data, <<>>)
TextUpdate(c, u, text) == Update(c, u, "text", <<>>, 0, Garbage, text)
CommandUpdate(c, u, cmd) == Update(c, u, "command", <<>>, 0, Garbage, <<cmd>>)
DocUpdates == {DocUpdate(c, u, d) : c \in Chats, u \in Users, d \in Documents}
TextUpdates == {TextUpdate(c, u, t) : c \in Chats, u \in Users, t \in Texts}
CommandUpdates == {CommandUpdate(c, u, cmd) : c \in Chats, u \in Users, cmd \in Commands}
Updates == DocUpdates \cup TextUpdates \cup CommandUpdates

\* What a step did: HTTP status, the callback that ran and the conversation
\* key it ran for, reply texts, the document sent, whether doc.get_file() was
\* called, the blob read from input_path, the output file created, and
\* whether an exception left the callback.
NoKey == <<0, 0>>
Result(status, handler, key, msgs, doc, fetched, read, wrote, raised) ==
    [status |-> status, handler |-> handler, key |-> key, msgs |-> msgs, doc |-> doc,
     fetched |-> fetched, read |-> read, wrote |-> wrote, raised |-> raised]
Replied(handler, key, msg) ==
    Result(200, handler, key, <<msg>>, None, FALSE, None, None, FALSE)

Init ==
    /\ SECRET_TOKEN \in Secrets
    /\ conversations = [k \in Keys |-> END]
    /\ user_data = [u \in Users |-> EmptyData]
    /\ dirs = {}
    /\ files = [q \in {} |-> Garbage]
    /\ next_dir = 1
    /\ out = Result(0, "none", NoKey, <<>>, None, FALSE, None, None, FALSE)
    /\ dlg = [k \in Keys |-> None]
    /\ inflight = <<>>

\* ----------------------------------------------------------------- helpers
exists(p) == p \in DOMAIN files
remove(fs, p) == [q \in (DOMAIN fs) \ {p} |-> fs[q]]
write(fs, p, data) == [q \in (DOMAIN fs) \cup {p} |-> IF q = p THEN data ELSE fs[q]]
is_empty(fs, d) == \A q \in DOMAIN fs : q[1] # d

\* cleanup(paths, dirs): os.remove every listed path that exists, then
\* os.rmdir every listed directory that exists, each entry in a try block of
\* its own.  `fail` names the paths and directories whose removal the
\* operating system refuses; rmdir of a non-empty directory raises as well.
NoRefusal == [paths |-> {}, dirs |-> {}]
try_remove(fs, p, fail) ==
    IF IsNone(p) \/ Val(p) \notin DOMAIN fs THEN [fs |-> fs, raised |-> FALSE]
    ELSE IF Val(p) \in fail.paths THEN [fs |-> fs, raised |-> TRUE]
    ELSE [fs |-> remove(fs, Val(p)), raised |-> FALSE]
try_rmdir_force(ds, fs, d, fail) ==
    IF IsNone(d) \/ Val(d) \notin ds THEN [ds |-> ds, raised |-> FALSE]
    ELSE IF Val(d) \in fail.dirs THEN [ds |-> ds, raised |-> TRUE]
    ELSE [ds |-> ds \ {Val(d)}, raised |-> FALSE]
try_rmdir(ds, fs, d, fail) ==
    IF IsNone(d) \/ Val(d) \notin ds THEN [ds |-> ds, raised |-> FALSE]
    ELSE IF ~is_empty(fs, Val(d)) \/ Val(d) \in fail.dirs THEN [ds |-> ds, raised |-> TRUE]
    ELSE [ds |-> ds \ {Val(d)}, raised |-> FALSE]

\* for p in paths: try: ... except Exception: pass
RECURSIVE remove_each_abort(_, _, _)
remove_each_abort(fs, paths, fail) ==
    IF paths = <<>> THEN [fs |-> fs, raised |-> FALSE]
    ELSE LET r == try_remove(fs, Head(paths), fail)
         IN  IF r.raised THEN r ELSE remove_each_abort(r.fs, Tail(paths), fail)
RECURSIVE remove_each(_, _, _)
remove_each(fs, paths, fail) ==
    IF paths = <<>> THEN [fs |-> fs, raised |-> FALSE]
    ELSE LET r == try_remove(fs, Head(paths), fail)
         IN  remove_each(r.fs, Tail(paths), fail)
\* for d in dirs: try: ... except Exception: pass
RECURSIVE rmdir_each(_, _, _, _)
rmdir_each(ds, fs, rm, fail) ==
    IF rm = <<>> THEN [ds |-> ds, raised |-> FALSE]
    ELSE LET r == try_rmdir(ds, fs, Head(rm), fail)
         IN  rmdir_each(r.ds, fs, Tail(rm), fail)

cleanup_files(fs, paths) == remove_each(fs, paths, NoRefusal).fs
cleanup_dirs_keep(ds, fs, rm) == ds
cleanup_dirs(ds, fs, rm) == rmdir_each(ds, fs, rm, NoRefusal).ds

\* cleanup() when the removals of `fail` are refused.
cleanup_refused(ds, fs, paths, rm, fail) ==
    LET a == remove_each(fs, paths, fail)
        b == rmdir_each(ds, a.fs, rm, fail)
    IN  [files |-> a.fs, dirs |-> b.ds, raised |-> a.raised \/ b.raised]

cleanup(ds, fs, paths, rm) ==
    LET left == cleanup_files(fs, paths)
    IN  [files |-> left, dirs |-> cleanup_dirs(ds, left, rm)]

\* webhook(): the secret header check; FALSE is the 401.
check_header_absent_ok(secret, header) == secret = "" \/ IsNone(header) \/ header = Some(secret)
check_header(secret, header) == secret = "" \/ header = Some(secret)

\* The handler application.process_update() runs for an update: /start is
\* registered first; the ConversationHandler offers its entry point only to a
\* key with no conversation, and the handlers of the current state, then the
\* fallbacks, to a key that has one.
is_p12_document(upd) == upd.kind = "document" /\ endswith_p12(upd.name)
is_plain_text(upd) == upd.kind = "text" /\ upd.text # <<>>
is_command(upd, cmd) == upd.kind = "command" /\ upd.text = <<cmd>>
dispatch_reentry(state, upd) ==
    IF is_command(upd, "start") THEN "start"
    ELSE IF is_p12_document(upd) THEN "handle_p12"
    ELSE IF state = ASK_OLD_PASS /\ is_plain_text(upd) THEN "ask_old_pass"
    ELSE IF state = ASK_NEW_PASS /\ is_plain_text(upd) THEN "ask_new_pass"
    ELSE IF state # END /\ is_command(upd, "cancel") THEN "cancel"
    ELSE "none"
dispatch_any_state(state, upd) ==
    IF is_command(upd, "start") THEN "start"
    ELSE IF is_p12_document(upd) /\ state = END THEN "handle_p12"
    ELSE IF state = ASK_OLD_PASS /\ is_plain_text(upd) THEN "ask_old_pass"
    ELSE IF is_plain_text(upd) THEN "ask_new_pass"
    ELSE IF state # END /\ is_command(upd, "cancel") THEN "cancel"
    ELSE "none"
dispatch(state, upd) ==
    IF is_command(upd, "start") THEN "start"
    ELSE IF state = END THEN (IF is_p12_document(upd) THEN "handle_p12" ELSE "none")
    ELSE IF state = ASK_OLD_PASS /\ is_plain_text(upd) THEN "ask_old_pass"
    ELSE IF state = ASK_NEW_PASS /\ is_plain_text(upd) THEN "ask_new_pass"
    ELSE IF is_command(upd, "cancel") THEN "cancel"
    ELSE "none"

\* Some header passes webhook()'s check, so the body reaches process_update().
Authorized == \E header \in Headers : check_header(SECRET_TOKEN, header)

\* The call passes webhook()'s check and process_update() picks `handler`.
Accepted(upd, handler) ==
    /\ Authorized
    /\ dispatch(conversations[<<upd.chat, upd.user>>], upd) = handler

\* ----------------------------------------------------------------- actions
\* webhook(): a configured secret and a header that differs: HTTP 401.
webhook_401(header) ==
    /\ ~check_header(SECRET_TOKEN, header)
    /\ out' = Result(401, "none", NoKey, <<>>, None, FALSE, None, None, FALSE)
    /\ UNCHANGED <<SECRET_TOKEN, inflight, conversations, user_data, dirs, files, next_dir, dlg>>

\* No handler accepts the update: process_update() does nothing.
ignored ==
    /\ out' = Result(200, "none", NoKey, <<>>, None, FALSE, None, None, FALSE)
    /\ UNCHANGED <<SECRET_TOKEN, inflight, conversations, user_data, dirs, files, next_dir, dlg>>
unhandled(upd) == Accepted(upd, "none") /\ ignored
\* The same step, for whichever update no handler accepts.
unhandled_update == {upd \in Updates : Accepted(upd, "none")} # {} /\ ignored

start(upd) ==
    /\ Accepted(upd, "start")
    /\ out' = Replied("start", NoKey, MsgStart)
    /\ UNCHANGED <<SECRET_TOKEN, inflight, conversations, user_data, dirs, files, next_dir, dlg>>

\* doc.file_size and doc.file_size > MAX_FILE_SIZE_BYTES
too_big_inclusive(size) == size # 0 /\ size >= MAX_FILE_SIZE_BYTES
too_big(size) == size # 0 /\ size > MAX_FILE_SIZE_BYTES

handle_p12(upd) ==
    LET k == <<upd.chat, upd.user>>
        tmp_dir == next_dir
        input_path == path_join(tmp_dir, upd.name)
    IN
    /\ Accepted(upd, "handle_p12")
    /\ IF ~endswith_p12(upd.name) THEN
            /\ out' = Replied("handle_p12", k, MsgNotP12)
            /\ conversations' = [conversations EXCEPT ![k] = END]
            /\ UNCHANGED <<SECRET_TOKEN, inflight, user_data, dirs, files, next_dir, dlg>>
       ELSE IF too_big(upd.size) THEN
            /\ out' = Replied("handle_p12", k, MsgTooBig)
            /\ conversations' = [conversations EXCEPT ![k] = END]
            /\ UNCHANGED <<SECRET_TOKEN, inflight, user_data, dirs, files, next_dir, dlg>>
       ELSE \E fault \in DocFaults :
         IF fault = "get_file" THEN
            \* doc.get_file() raises: the exception leaves the callback.
            /\ out' = Result(200, "handle_p12", k, <<>>, None, TRUE, None, None, TRUE)
            /\ UNCHANGED <<SECRET_TOKEN, inflight, conversations, user_data, dirs, files, next_dir, dlg>>
         ELSE
            /\ next_dir <= MaxUploads
            /\ next_dir' = next_dir + 1
            /\ dirs' = dirs \cup {tmp_dir}
            /\ IF fault = "download" THEN
                    \* download_to_drive() raises after mkdtemp().
                    /\ files' = files
                    /\ out' = Result(200, "handle_p12", k, <<>>, None, TRUE, None, None, TRUE)
                    /\ UNCHANGED <<SECRET_TOKEN, inflight, conversations, user_data, dlg>>
               ELSE
                    /\ files' = write(files, input_path, upd.data)
                    /\ user_data' = [user_data EXCEPT
                            ![upd.user].input_path = Some(input_path),
                            ![upd.user].tmp_dir = Some(tmp_dir),
                            ![upd.user].orig_name = Some(upd.name)]
                    /\ out' = Result(200, "handle_p12", k, <<MsgAskOld>>, None, TRUE,
                                     None, None, FALSE)
                    /\ conversations' = [conversations EXCEPT ![k] = ASK_OLD_PASS]
                    /\ dlg' = [dlg EXCEPT ![k] = Some(tmp_dir)]
                    /\ UNCHANGED <<SECRET_TOKEN, inflight>>

ask_old_pass_raw(upd) ==
    /\ Accepted(upd, "ask_old_pass")
    /\ user_data' = [user_data EXCEPT ![upd.user].old_pass = Some(upd.text)]
    /\ out' = Replied("ask_old_pass", <<upd.chat, upd.user>>, MsgAskNew)
    /\ conversations' = [conversations EXCEPT ![<<upd.chat, upd.user>>] = ASK_NEW_PASS]
    /\ UNCHANGED <<SECRET_TOKEN, inflight, dirs, files, next_dir, dlg>>
ask_old_pass(upd) ==
    /\ Accepted(upd, "ask_old_pass")
    /\ user_data' = [user_data EXCEPT ![upd.user].old_pass = Some(strip(upd.text))]
    /\ out' = Replied("ask_old_pass", <<upd.chat, upd.user>>, MsgAskNew)
    /\ conversations' = [conversations EXCEPT ![<<upd.chat, upd.user>>] = ASK_NEW_PASS]
    /\ UNCHANGED <<SECRET_TOKEN, inflight, dirs, files, next_dir, dlg>>

\* The callback's terminal branches: the reply, the filesystem after
\* cleanup, and whether user_data is cleared.
Finish(upd, result, fs, clear) ==
    /\ out' = result
    /\ files' = fs.files
    /\ dirs' = fs.dirs
    /\ user_data' = IF clear THEN [user_data EXCEPT ![upd.user] = EmptyData] ELSE user_data
    /\ conversations' = [conversations EXCEPT ![<<upd.chat, upd.user>>] = END]
    /\ dlg' = [dlg EXCEPT ![<<upd.chat, upd.user>>] = None]
    /\ UNCHANGED <<SECRET_TOKEN, next_dir>>

\* The paths the finally clause hands to cleanup().
finally_paths(input_path, output_path) ==
    IF ~IsNone(output_path) THEN <<input_path, output_path>> ELSE <<input_path>>

ask_new_pass(upd) ==
    LET k == <<upd.chat, upd.user>>
        new_pass == strip(upd.text)
        input_path == user_data[upd.user].input_path
        tmp_dir == user_data[upd.user].tmp_dir
        old_pass == user_data[upd.user].old_pass
        orig_name == user_data[upd.user].orig_name
        p12_data == files[Val(input_path)]
        \* old_pass None: None.encode raises inside the try block
        loaded == IF IsNone(old_pass)
                  THEN [ok |-> FALSE, key |-> None, cert |-> None, addl |-> <<>>]
                  ELSE load_key_and_certificates(p12_data,
                            IF Val(old_pass) = <<>> THEN None ELSE old_pass)
        new_p12 == serialize_key_and_certificates(friendly_name(loaded.cert),
                        loaded.key, loaded.cert, loaded.addl, new_pass)
    IN
    /\ Accepted(upd, "ask_new_pass")
    /\ UNCHANGED inflight
    /\ IF IsNone(input_path) \/ ~exists(Val(input_path)) THEN
            /\ out' = Replied("ask_new_pass", k, MsgMissing)
            /\ conversations' = [conversations EXCEPT ![<<upd.chat, upd.user>>] = END]
            /\ dlg' = [dlg EXCEPT ![<<upd.chat, upd.user>>] = None]
            /\ UNCHANGED <<SECRET_TOKEN, user_data, dirs, files, next_dir>>
       ELSE IF ~loaded.ok THEN
            Finish(upd, Result(200, "ask_new_pass", k, <<MsgDecrypt>>, None, FALSE,
                               Some(p12_data), None, FALSE),
                   cleanup(dirs, files, <<input_path>>, <<tmp_dir>>),
                   FALSE)
       ELSE IF IsNone(loaded.key) /\ IsNone(loaded.cert) THEN
            Finish(upd, Result(200, "ask_new_pass", k, <<MsgInvalid>>, None, FALSE,
                               Some(p12_data), None, FALSE),
                   cleanup(dirs, files, <<input_path>>, <<tmp_dir>>),
                   FALSE)
       ELSE IF IsNone(new_p12) \/ IsNone(orig_name) \/ IsNone(tmp_dir) THEN
            \* raised before output_path is assigned
            Finish(upd, Result(200, "ask_new_pass", k, <<MsgRepack>>, None, FALSE,
                               Some(p12_data), None, FALSE),
                   cleanup(dirs, files, finally_paths(input_path, None), <<tmp_dir>>),
                   TRUE)
       ELSE \E fault \in RepackFaults, ts \in Timestamps :
            LET output_name == format_output_name(Val(orig_name), ts)
                output_path == path_join(Val(tmp_dir), output_name)
                \* open(output_path, "wb") raises / f.write raises /
                \* reply_document raises
                created == fault # "write"
                written == IF created
                           THEN write(files, output_path,
                                      IF fault = "write_partial" THEN Garbage
                                                                 ELSE Val(new_p12))
                           ELSE files
                sent == fault = "none"
            IN  Finish(upd, Result(200, "ask_new_pass", k,
                               IF sent THEN <<>> ELSE <<MsgRepack>>,
                               IF sent THEN Some([filename |-> output_name,
                                                  data |-> Val(new_p12)])
                                       ELSE None,
                               FALSE, Some(p12_data),
                               IF created THEN Some(output_path) ELSE None, FALSE),
                   cleanup(dirs, written, finally_paths(input_path, Some(output_path)),
                           <<tmp_dir>>),
                   TRUE)

cancel(upd) ==
    /\ Accepted(upd, "cancel")
    /\ UNCHANGED inflight
    /\ Finish(upd, Replied("cancel", <<upd.chat, upd.user>>, MsgCancel),
              cleanup(dirs, files, <<user_data[upd.user].input_path>>,
                      <<user_data[upd.user].tmp_dir>>),
              TRUE)

\* ------------------------------------------------------------ specification
\* application.process_update(update): the first handler that accepts it.
handled(upd) ==
    \/ start(upd)
    \/ handle_p12(upd)
    \/ ask_old_pass(upd)
    \/ ask_new_pass(upd)
    \/ cancel(upd)
process_update(upd) == unhandled(upd) \/ handled(upd)

\* POST WEBHOOK_PATH with the given secret header, whatever the body: the
\* body is parsed and processed only when the header check passes.
webhook(header) ==
    \/ webhook_401(header)
    \/ check_header(SECRET_TOKEN, header) /\ \E upd \in Updates : process_update(upd)

\* Every webhook call: a rejected one, one no handler accepts, a handled one.
\* A callback is offered the updates its filter can accept: commands for the
\* CommandHandlers, attachments for the entry point, text for the two
\* waiting states; its guard decides among them.
Next ==
    \/ \E header \in Headers : webhook_401(header)
    \/ unhandled_update
    \/ \E upd \in CommandUpdates : start(upd)
    \/ \E upd \in DocUpdates : handle_p12(upd)
    \/ \E upd \in TextUpdates : ask_old_pass(upd)
    \/ \E upd \in TextUpdates : ask_new_pass(upd)
    \/ \E upd \in CommandUpdates : cancel(upd)

Spec == Init /\ [][Next]_vars

\* ----------------------------------------------------------- cleanup alone
\* cleanup() called once on any scratch filesystem, with any short lists of
\* paths and directories (None entries and entries that do not exist
\* included) and at most one removal that the operating system refuses.
Lists(S, n) == UNION {[1..m -> S] : m \in 0..n}
Opt(S) == {None} \cup {Some(x) : x \in S}
ScratchDirs == {1, 2}
ScratchPaths ==
    {path_join(d, n) : d \in ScratchDirs, n \in {SecretP12, <<"out", ".", "p12">>}}
Refusals ==
    {NoRefusal} \cup {[paths |-> {q}, dirs |-> {}] : q \in ScratchPaths}
                \cup {[paths |-> {}, dirs |-> {d}] : d \in ScratchDirs}
CleanupDone(paths, rm, fail, had, raised) ==
    [status |-> 0, handler |-> "cleanup", paths |-> paths, rm |-> rm, fail |-> fail,
     had |-> had, raised |-> raised]

InitCleanup ==
    /\ SECRET_TOKEN = ""
    /\ conversations = [k \in Keys |-> END]
    /\ user_data = [u \in Users |-> EmptyData]
    /\ dirs \in SUBSET ScratchDirs
    /\ files \in UNION {[S -> {Garbage}] : S \in SUBSET {q \in ScratchPaths : q[1] \in dirs}}
    /\ next_dir = 1
    /\ out = Result(0, "none", NoKey, <<>>, None, FALSE, None, None, FALSE)
    /\ dlg = [k \in Keys |-> None]
    /\ inflight = <<>>

cleanup_call(paths, rm, fail) ==
    /\ out.handler = "none"
    /\ LET r == cleanup_refused(dirs, files, paths, rm, fail)
       IN  /\ files' = r.files
           /\ dirs' = r.dirs
           /\ out' = CleanupDone(paths, rm, fail, DOMAIN files, r.raised)
    /\ UNCHANGED <<SECRET_TOKEN, inflight, conversations, user_data, next_dir, dlg>>

NextCleanup ==
    /\ out.handler = "none"
    /\ \E paths \in Lists(Opt(ScratchPaths), MaxEntries),
          rm \in Lists(Opt(ScratchDirs), MaxEntries),
          fail \in Refusals : cleanup_call(paths, rm, fail)

SpecCleanup == InitCleanup /\ [][NextCleanup]_vars

\* ------------------------------------------------- interleaved webhook calls
\* webhook() calls run as tasks of one event loop.  ask_new_pass runs without
\* interruption up to the await of its reply (reply_text or reply_document)
\* and is suspended there; other calls run meanwhile.  When the reply is
\* done the rest of the callback runs: cleanup(), user_data.clear() where
\* the branch has them, and the return of END, after which the
\* ConversationHandler stores the new state.  While the call is suspended
\* the dialogue state is still ASK_NEW_PASS.
Suspended(upd, input_path, doc, paths, rm, clear) ==
    [key |-> <<upd.chat, upd.user>>, input_path |-> input_path, doc |-> doc,
     paths |-> paths, rm |-> rm, clear |-> clear]

\* Up to the await: the reply goes out, the rest waits.
Suspend(upd, result, fs, rest) ==
    /\ Len(inflight) < MaxInflight
    /\ out' = result
    /\ files' = fs
    /\ inflight' = Append(inflight, rest)
    /\ UNCHANGED <<SECRET_TOKEN, conversations, user_data, dirs, next_dir, dlg>>

ask_new_pass_begin(upd) ==
    LET k == <<upd.chat, upd.user>>
        new_pass == strip(upd.text)
        input_path == user_data[upd.user].input_path
        tmp_dir == user_data[upd.user].tmp_dir
        old_pass == user_data[upd.user].old_pass
        orig_name == user_data[upd.user].orig_name
        p12_data == files[Val(input_path)]
        loaded == IF IsNone(old_pass)
                  THEN [ok |-> FALSE, key |-> None, cert |-> None, addl |-> <<>>]
                  ELSE load_key_and_certificates(p12_data,
                            IF Val(old_pass) = <<>> THEN None ELSE old_pass)
        new_p12 == serialize_key_and_certificates(friendly_name(loaded.cert),
                        loaded.key, loaded.cert, loaded.addl, new_pass)
    IN
    /\ Accepted(upd, "ask_new_pass")
    /\ IF IsNone(input_path) \/ ~exists(Val(input_path)) THEN
            Suspend(upd, Replied("ask_new_pass", k, MsgMissing), files,
                    Suspended(upd, input_path, None, <<>>, <<>>, FALSE))
       ELSE IF ~loaded.ok THEN
            Suspend(upd, Result(200, "ask_new_pass", k, <<MsgDecrypt>>, None, FALSE,
                                Some(p12_data), None, FALSE),
                    files,
                    Suspended(upd, input_path, None, <<input_path>>, <<tmp_dir>>, FALSE))
       ELSE IF IsNone(loaded.key) /\ IsNone(loaded.cert) THEN
            Suspend(upd, Result(200, "ask_new_pass", k, <<MsgInvalid>>, None, FALSE,
                                Some(p12_data), None, FALSE),
                    files,
                    Suspended(upd, input_path, None, <<input_path>>, <<tmp_dir>>, FALSE))
       ELSE IF IsNone(new_p12) \/ IsNone(orig_name) \/ IsNone(tmp_dir) THEN
            Suspend(upd, Result(200, "ask_new_pass", k, <<MsgRepack>>, None, FALSE,
                                Some(p12_data), None, FALSE),
                    files,
                    Suspended(upd, input_path, None, finally_paths(input_path, None),
                              <<tmp_dir>>, TRUE))
       ELSE \E fault \in RepackFaults, ts \in Timestamps :
            LET output_name == format_output_name(Val(orig_name), ts)
                output_path == path_join(Val(tmp_dir), output_name)
                created == fault # "write"
                written == IF created
                           THEN write(files, output_path,
                                      IF fault = "write_partial" THEN Garbage
                                                                 ELSE Val(new_p12))
                           ELSE files
                sent == fault = "none"
                doc == IF sent THEN Some([filename |-> output_name, data |-> Val(new_p12)])
                               ELSE None
            IN  Suspend(upd, Result(200, "ask_new_pass", k,
                                IF sent THEN <<>> ELSE <<MsgRepack>>, doc,
                                FALSE, Some(p12_data),
                                IF created THEN Some(output_path) ELSE None, FALSE),
                    written,
                    Suspended(upd, input_path, doc,
                              finally_paths(input_path, Some(output_path)),
                              <<tmp_dir>>, TRUE))

\* The reply of the i-th suspended call is done: the rest of the callback.
ask_new_pass_end(i) ==
    LET rest == inflight[i]
    IN  /\ Finish([chat |-> rest.key[1], user |-> rest.key[2]],
                  Result(200, "ask_new_pass", rest.key, <<>>, None, FALSE, None, None, FALSE),
                  cleanup(dirs, files, rest.paths, rest.rm),
                  rest.clear)
        /\ inflight' = [j \in 1..(Len(inflight) - 1) |->
                            IF j < i THEN inflight[j] ELSE inflight[j + 1]]

\* The calls of one chat, in any interleaving.
OneChat == {upd \in Updates : upd.chat = 1}
NextConcurrent ==
    \/ \E header \in Headers : webhook_401(header)
    \/ unhandled_update
    \/ \E upd \in OneChat \cap CommandUpdates : start(upd)
    \/ \E upd \in OneChat \cap DocUpdates : handle_p12(upd)
    \/ \E upd \in OneChat \cap TextUpdates : ask_old_pass(upd)
    \/ \E upd \in OneChat \cap CommandUpdates : cancel(upd)
    \/ \E upd \in OneChat \cap TextUpdates : ask_new_pass_begin(upd)
    \/ \E i \in 1..Len(inflight) : ask_new_pass_end(i)

SpecConcurrent == Init /\ [][NextConcurrent]_vars

\* ------------------------------------------------------------------ claims
KeyOf(upd) == <<upd.chat, upd.user>>
Callbacks == {"handle_p12", "ask_old_pass", "ask_new_pass", "cancel"}
\* A blob opens with a passphrase; the material a bundle holds.
Opens(data, pass) == data.kind = "p12" /\ data.pw = pass
Material(data) == <<data.key, data.cert, data.addl>>
\* The user's scratch state names an input file that exists.
StoredInput(u) ==
    /\ ~IsNone(user_data[u].input_path)
    /\ Val(user_data[u].input_path) \in DOMAIN files
StoredBundle(u) == files[Val(user_data[u].input_path)]
\* The step taken is the new-password step for this text message.
NewPassStep(upd) ==
    /\ upd.kind = "text"
    /\ conversations[KeyOf(upd)] = ASK_NEW_PASS
    /\ process_update(upd)

\* C1: when a dialogue ends (its key returns to END from a non-terminal
\* state), the directory mkdtemp() allocated for that dialogue's upload no
\* longer exists.
C1_TempDirGoneAtEnd ==
    [][\A k \in Keys :
        (conversations[k] # END /\ conversations'[k] = END /\ ~IsNone(dlg[k]))
            => Val(dlg[k]) \notin dirs']_vars

\* C2: a new-password step whose stored old passphrase does not open the
\* stored blob answers with the decryption-error text, creates no output
\* file and sends no document.
C2_WrongOldPassNoOutput ==
    [][\A k \in Keys :
        ( /\ conversations[k] = ASK_NEW_PASS
          /\ out'.handler = "ask_new_pass" /\ out'.key = k
          /\ StoredInput(k[2])
          /\ ~IsNone(user_data[k[2]].old_pass)
          /\ ~Opens(StoredBundle(k[2]), Val(user_data[k[2]].old_pass)) )
        => /\ out'.msgs = <<MsgDecrypt>>
           /\ IsNone(out'.doc)
           /\ IsNone(out'.wrote)
           /\ DOMAIN files' \subseteq DOMAIN files]_vars
\* The empty reply was stored for a protected bundle and the step reported
\* the decryption error.
C2_Witness ==
    /\ out.handler = "ask_new_pass"
    /\ out.msgs = <<MsgDecrypt>>
    /\ ~IsNone(out.read)
    /\ Val(out.read).kind = "p12"
    /\ Val(out.read).pw # <<>>
    /\ user_data[out.key[2]].old_pass = Some(<<>>)

C4_NonP12Answered ==
    [][\A header \in Headers, upd \in Updates :
        ( /\ upd.kind = "document"
          /\ ~(Len(upd.name) >= 2 /\ upd.name[Len(upd.name) - 1] = "."
                 /\ upd.name[Len(upd.name)] \in {"p12", "P12"})
          /\ check_header(SECRET_TOKEN, header)
          /\ process_update(upd) )
        => /\ out'.msgs = <<MsgNotP12>>
           /\ conversations'[KeyOf(upd)] = END
           /\ dirs' = dirs]_vars

\* C5: a .p12 attachment larger than 16 MiB ends the upload step with the
\* too-large text, without doc.get_file(), without a temporary directory and
\* without touching scratch state; one of exactly 16 MiB is not turned away
\* and, unless the download fails, moves on to the old-password prompt.
C5_SizeLimit ==
    [][out'.handler = "handle_p12" =>
        \A upd \in DocUpdates :
            (upd.kind = "document" /\ upd.size >= 16777216 /\ KeyOf(upd) = out'.key
                /\ process_update(upd))
            => /\ upd.size > 16777216
                    => /\ out'.msgs = <<MsgTooBig>>
                       /\ ~out'.fetched
                       /\ conversations'[KeyOf(upd)] = END
                       /\ UNCHANGED <<dirs, files, next_dir, user_data>>
               /\ upd.size = 16777216
                    => /\ out'.msgs # <<MsgTooBig>>
                       /\ out'.fetched
                       /\ ~out'.raised => conversations'[KeyOf(upd)] = ASK_OLD_PASS]_vars
\* An oversize upload was turned away.
C5_Witness == out.handler = "handle_p12" /\ out.msgs = <<MsgTooBig>> /\ ~out.fetched

C7_BadSecretRejected ==
    [][\A header \in Headers :
        (SECRET_TOKEN # "" /\ header # Some(SECRET_TOKEN) /\ webhook(header))
        => /\ out'.status = 401
           /\ UNCHANGED <<conversations, user_data, dirs, files, next_dir, dlg>>]_vars
\* A call was rejected while a dialogue was open.
C7_Witness ==
    /\ SECRET_TOKEN # ""
    /\ out.status = 401
    /\ \E k \in Keys : conversations[k] # END

\* C8: when a dialogue ends, whatever the outcome, none of the scratch
\* fields remains stored for its user.
C8_ScratchClearedAtEnd ==
    [][\A k \in Keys :
        (conversations[k] # END /\ conversations'[k] = END)
            => user_data'[k[2]] = EmptyData]_vars

\* C9: no exception leaves a conversation callback, and every callback
\* answers the user with a text or the document.
C9_FailuresCaught ==
    out.handler \in Callbacks =>
        /\ ~out.raised
        /\ out.msgs # <<>> \/ ~IsNone(out.doc)

\* The name up to its last dot, the whole name when nothing but dots
\* precedes that dot.
Stem(name) ==
    IF \E i \in 2..Len(name) :
            /\ name[i] = "."
            /\ \A j \in (i + 1)..Len(name) : name[j] # "."
            /\ \E j \in 1..(i - 1) : name[j] # "."
    THEN SubSeq(name, 1,
                (CHOOSE i \in 2..Len(name) :
                    name[i] = "." /\ \A j \in (i + 1)..Len(name) : name[j] # ".") - 1)
    ELSE name
\* C10 as stated: the document is named <stem>_repass_<timestamp>.p12.
C10_NamedRepass ==
    [][(out'.handler = "ask_new_pass" /\ ~IsNone(out'.doc)) =>
        \E ts \in Timestamps :
            Val(out'.doc).filename =
                Stem(Val(user_data[out'.key[2]].orig_name)) \o <<"_repass_", ts, ".", "p12">>]_vars
\* C10 amended: the document is named <stem>_newpass_<timestamp>.p12, the
\* stem being the stored original name up to its last dot; secret.p12 gives
\* secret_newpass_<timestamp>.p12; the output file in the session's temporary
\* directory has the same name.
C10_NamedNewpass ==
    [][(out'.handler = "ask_new_pass" /\ ~IsNone(out'.doc)) =>
        LET orig_name == Val(user_data[out'.key[2]].orig_name)
            tmp_dir == Val(user_data[out'.key[2]].tmp_dir)
            sent == Val(out'.doc).filename
        IN  /\ \E ts \in Timestamps :
                /\ sent = Stem(orig_name) \o <<"_newpass_", ts, ".", "p12">>
                /\ orig_name = <<"secret", ".", "p12">>
                    => sent = <<"secret", "_newpass_", ts, ".", "p12">>
            /\ out'.wrote = Some(<<tmp_dir, sent>>)]_vars
\* A repack of secret.p12 was sent.
C10_Witness ==
    /\ ~IsNone(out.doc)
    /\ \E ts \in Timestamps :
        Val(out.doc).filename = <<"secret", "_newpass_", ts, ".", "p12">>

\* C11 as stated: a .p12 upload that arrives while its chat's dialogue awaits
\* a password runs the upload handler, which restarts the dialogue at
\* awaiting-old-password with the new file's scratch fields.
C11_UploadRestarts ==
    [][\A upd \in Updates :
        ( /\ upd.kind = "document"
          /\ conversations[KeyOf(upd)] # END
          /\ is_p12_document(upd)
          /\ ~too_big(upd.size)
          /\ process_update(upd) )
        => /\ out'.handler = "handle_p12"
           /\ conversations'[KeyOf(upd)] = ASK_OLD_PASS
           /\ user_data'[upd.user].orig_name = Some(upd.name)]_vars
\* C11 amended: such an upload reaches no handler.  In every state no
\* callback can run for it and the no-handler step can; that step answers
\* nothing and leaves the dialogue state, scratch state and the filesystem
\* untouched, so no directory is created and none is orphaned.
C11_UploadIgnored ==
    /\ [](\A upd \in DocUpdates :
            ( /\ conversations[KeyOf(upd)] # END
              /\ is_p12_document(upd) )
            => /\ ~ENABLED handled(upd)
               /\ ENABLED unhandled(upd))
    /\ [][out'.handler = "none" =>
            \A upd \in DocUpdates :
                ( /\ conversations[KeyOf(upd)] # END
                  /\ is_p12_document(upd)
                  /\ unhandled(upd) )
                => /\ out'.msgs = <<>>
                   /\ UNCHANGED <<conversations, user_data, dirs, files, next_dir>>]_vars
\* Every chat is mid-dialogue and the last update reached no handler: only
\* an attachment is left unhandled there.
C11_Witness ==
    /\ \A k \in Keys : conversations[k] # END
    /\ out.status = 200
    /\ out.handler = "none"

\* C12: a step handled for one chat neither rewrites scratch fields that the
\* open dialogue of another chat wrote, nor deletes that dialogue's
\* directory or the files in it.
C12_NoCrossChatSharing ==
    [][\A k \in Keys, k2 \in Keys :
        (k2 # k /\ out'.key = k /\ ~IsNone(dlg[k2]))
        => LET d == Val(dlg[k2])
           IN  /\ d \in dirs => d \in dirs'
               /\ \A q \in DOMAIN files : q[1] = d => q \in DOMAIN files'
               /\ user_data[k2[2]].tmp_dir = Some(d)
                    => user_data'[k2[2]] = user_data[k2[2]]]_vars

\* The moves a dialogue may make, and the callback that makes each.
Forward ==
    {<<END, ASK_OLD_PASS, "handle_p12">>,
     <<ASK_OLD_PASS, ASK_NEW_PASS, "ask_old_pass">>,
     <<ASK_OLD_PASS, END, "cancel">>,
     <<ASK_NEW_PASS, END, "ask_new_pass">>,
     <<ASK_NEW_PASS, END, "cancel">>}

\* C13: a dialogue only moves forward, END -> ASK_OLD_PASS -> ASK_NEW_PASS ->
\* END, each move made by the callback of its state for that chat (or by
\* /cancel); the new-password callback, the only one that repacks, runs only
\* in ASK_NEW_PASS; and a text message to a chat in the initial state can
\* run no callback, the step that processes it leaving scratch state as it is.
C13_ForwardOnly ==
    /\ [](\A upd \in TextUpdates :
            conversations[KeyOf(upd)] = END
            => /\ ~ENABLED handled(upd)
               /\ ENABLED unhandled(upd))
    /\ [][/\ \A k \in Keys :
                conversations'[k] # conversations[k]
                => /\ <<conversations[k], conversations'[k], out'.handler>> \in Forward
                   /\ out'.key = k
          /\ out'.handler = "ask_new_pass"
                => conversations[out'.key] = ASK_NEW_PASS
          /\ (~IsNone(out'.wrote) \/ ~IsNone(out'.doc) \/ ~IsNone(out'.read))
                => out'.handler = "ask_new_pass"
          /\ out'.handler = "none" =>
                \A upd \in TextUpdates :
                    (conversations[KeyOf(upd)] = END /\ unhandled(upd))
                    => UNCHANGED <<conversations, user_data, dirs, files>>]_vars
\* A new-password step wrote an output file and closed its dialogue.
C13_Witness ==
    /\ out.handler = "ask_new_pass"
    /\ ~IsNone(out.wrote)
    /\ conversations[out.key] = END

\* C16: a new-password step that reports the missing file ends the dialogue
\* without reading the bundle, writing an output file or sending a
\* document, and leaves neither the dialogue's directory nor scratch state
\* behind.
C16_MissingFileCleansUp ==
    [][(out'.handler = "ask_new_pass" /\ out'.msgs = <<MsgMissing>>)
        => LET k == out'.key
           IN  /\ IsNone(out'.read)
               /\ IsNone(out'.wrote)
               /\ IsNone(out'.doc)
               /\ conversations'[k] = END
               /\ user_data'[k[2]] = EmptyData
               /\ ~IsNone(dlg[k]) => Val(dlg[k]) \notin dirs']_vars

\* C17: the old-password step stores the reply trimmed of surrounding
\* whitespace and moves to ASK_NEW_PASS whatever the reply; the new-password
\* step reads the stored bundle and gets past decryption exactly when the
\* bundle opens with the stored text, the empty text standing for "no
\* passphrase" (it opens exactly the bundles that have none).
C17_OldPassTrimmedAndUsed ==
    [][/\ out'.handler = "ask_old_pass" =>
            \A upd \in TextUpdates :
                (KeyOf(upd) = out'.key /\ process_update(upd))
                => /\ user_data'[upd.user].old_pass = Some(strip(upd.text))
                   /\ conversations[KeyOf(upd)] = ASK_OLD_PASS
                   /\ conversations'[KeyOf(upd)] = ASK_NEW_PASS
       /\ \A k \in Keys :
            ( /\ out'.handler = "ask_new_pass" /\ out'.key = k
              /\ StoredInput(k[2])
              /\ ~IsNone(user_data[k[2]].old_pass) )
            => LET stored == Val(user_data[k[2]].old_pass)
                   bundle == StoredBundle(k[2])
               IN  /\ out'.read = Some(bundle)
                   /\ stored = strip(stored)
                   /\ (out'.msgs # <<MsgDecrypt>>) <=> Opens(bundle, stored)
                   /\ (stored = <<>> /\ out'.msgs # <<MsgDecrypt>>)
                        => bundle.pw = <<>>]_vars
\* A reply of whitespace alone was stored as the empty passphrase, and the
\* new-password step opened an unprotected bundle with it and sent the
\* repack.
C17_Witness ==
    /\ out.handler = "ask_new_pass"
    /\ ~IsNone(out.doc)
    /\ ~IsNone(out.read)
    /\ Val(out.read).pw = <<>>

\* C18: the bundle a new-password step reads, and the file name it derives
\* the output name from, are those of the upload that opened the same
\* dialogue: the input path lies in the directory mkdtemp() gave that
\* dialogue, and a document sent is a repack of that dialogue's file.
C18_OwnUploadRepacked ==
    [][(out'.handler = "ask_new_pass" /\ ~IsNone(out'.read))
        => LET k == out'.key
               input_path == Val(user_data[k[2]].input_path)
           IN  /\ ~IsNone(dlg[k])
               /\ input_path[1] = Val(dlg[k])
               /\ user_data[k[2]].orig_name = Some(input_path[2])
               /\ ~IsNone(out'.wrote) => Val(out'.wrote)[1] = Val(dlg[k])]_vars

\* The entries of a list that name something.
Listed(list) == {Val(list[i]) : i \in {j \in 1..Len(list) : ~IsNone(list[j])}}

\* C14: cleanup removes a directory only when it is empty once the listed
\* files are gone.  A directory that still holds a file (one that was not
\* listed, or whose removal was refused) stays, and its files stay with it;
\* a listed directory whose files were all listed and removed is removed,
\* the files going first; nothing unlisted is ever removed.
C14_RmdirOnlyWhenEmpty ==
    [][out'.handler = "cleanup"
        => /\ \A d \in dirs \ dirs' : is_empty(files', d) /\ d \in Listed(out'.rm)
           /\ \A d \in dirs : ~is_empty(files', d) => d \in dirs'
           /\ (DOMAIN files) \ (DOMAIN files') \subseteq Listed(out'.paths)
           /\ \A d \in (Listed(out'.rm) \cap dirs) \ out'.fail.dirs :
                (\A q \in DOMAIN files :
                    q[1] = d => q \in Listed(out'.paths) \ out'.fail.paths)
                => d \notin dirs' /\ is_empty(files', d)]_vars
\* cleanup was asked to remove a directory that still held a file outside
\* its list: a listed file is gone, the other file and the directory stay.
C14_Witness ==
    /\ out.handler = "cleanup"
    /\ out.fail = NoRefusal
    /\ \E d \in Listed(out.rm) \cap dirs :
        /\ \E q \in out.had \ DOMAIN files : q[1] = d
        /\ \E q \in DOMAIN files : q[1] = d

\* C15: cleanup attempts every entry whatever happened to the ones before
\* it: every listed file that exists and whose removal is not refused is
\* removed, every listed directory that exists, is empty by then and is not
\* refused is removed, wherever None entries, missing entries or refused
\* entries stand in the lists; and no exception reaches the caller.
C15_CleanupBestEffort ==
    [][out'.handler = "cleanup"
        => /\ ~out'.raised
           /\ \A p \in (Listed(out'.paths) \cap DOMAIN files) \ out'.fail.paths :
                p \notin DOMAIN files'
           /\ \A d \in (Listed(out'.rm) \cap dirs) \ out'.fail.dirs :
                is_empty(files', d) => d \notin dirs'
           /\ DOMAIN files' \subseteq DOMAIN files
           /\ dirs' \subseteq dirs]_vars
\* The first listed file could not be removed and is still there; the
\* second one, listed after it, was removed all the same.
C15_Witness ==
    /\ out.handler = "cleanup"
    /\ Len(out.paths) = 2
    /\ ~IsNone(out.paths[1]) /\ ~IsNone(out.paths[2])
    /\ Val(out.paths[1]) \in out.fail.paths
    /\ Val(out.paths[1]) \in DOMAIN files
    /\ Val(out.paths[2]) \in out.had
    /\ Val(out.paths[2]) \notin DOMAIN files

\* C19: no two new-password calls send a repacked document for the same
\* upload (the same stored input file), however the calls interleave.
C19_OneDocumentPerUpload ==
    \A i, j \in 1..Len(inflight) :
        (i # j /\ ~IsNone(inflight[i].doc) /\ ~IsNone(inflight[j].doc))
            => inflight[i].input_path # inflight[j].input_path

====
